---- MODULE Spec2Model ----
(***************************************************************************)
(* A model of deja-claude.  The backend: the SessionManager of             *)
(* src/backend/src/session.ts (the session registry and the pty callbacks  *)
(* it wires) and the WebSocket fanout of the server entry file             *)
(* (src/unnamed/part_008).  The browser client: the useSession hook of     *)
(* src/frontend/src/hooks/useSession.ts with the store and the line        *)
(* classifier of src/frontend/src/App.tsx.  The event loop of either side  *)
(* runs one handler at a time, so every method call, every WebSocket       *)
(* message and every pty callback is one atomic action, and a message is   *)
(* in flight between the step that sends it and the step that handles it.  *)
(***************************************************************************)
EXTENDS Integers, Sequences, FiniteSets, TLC

\* ------------------------------------------------------------------ bounds
MaxConns == 2   \* WebSocket connections in one run
\* What one run creates: sessions, processes, output chunks and subscriptions.
MaxLoad  == 5
\* The replay runs: what one process writes, and the subscriptions made.
MaxBacklog    == 102
MaxReplaySubs == 1
\* The client runs: messages handled or to be handled plus messages sent by
\* one client.
MaxClientEvents == 5

\* The 'subscribe' messages one hook sends: that of the first mount, and
\* that of a later run of the effect, for the same session or another one.
MaxSubscribes == 2
\* The runs with several subscriptions: messages handled or to be handled
\* plus messages sent.
MaxSwitchEvents == 3
\* The server writes output that no client is sent only while the log of the
\* session holds fewer entries than this.
MaxAwayLog == 2
\* The 'data' and 'exit' messages on their way to the client at one time,
\* in the runs of one subscription and in those with several.
MaxInFlight == 2
MaxSwitchInFlight == 1

\* ------------------------------------------------------- program constants
NULL == 0                \* pty: null, subscribedSessionId = null
LogReplayLimit == 100    \* getLogs(message.sessionId, 100) on subscribe
Undefined == 0 - 1       \* the optional limit of getLogs left out
ThisSession == 1         \* sessionId of the session whose store entries
                         \* (messages, logs, status) the client model tracks
OtherSession == 2        \* sessionId of another session of the store

\* An id no createSession ever returned (uuidv4 never produces it).
BogusId    == MaxLoad + 1
\* The sessionId of a 'subscribe' message that is falsy in JavaScript: the
\* empty string, or the field left out.
EmptyId    == MaxLoad + 2
Conns      == 1..MaxConns
ExitCodes  == {0, 1}

VARIABLES
    sessions,            \* the keys of SessionManager.sessions (the Map)
    sess,                \* the Session objects ever created, by id; an object
                         \* outlives its Map entry in the closures of its pty
    procs,               \* the pty processes ever spawned, by handle
    sessionConnections,  \* Map<string, Set<WebSocket>> of the server
    readyState,          \* ws.readyState of each connection
    subscribedSessionId, \* the closure variable of each connection
    received,            \* what each client was sent, in order
    nSubs,               \* 'subscribe' messages handled so far
    published,           \* per session: the session:data / session:exit emitted
    subMark,             \* per connection: where its subscription began
    parserRef,           \* the client's parser: currentRole, buffer,
                         \* currentMessageId
    sessionMessages,     \* the store's messages of the client's session
    messageCounter,      \* the counter behind generateMessageId
    wsRef,               \* readyState of the client's WebSocket
    sessionLogs,         \* the store's log entries of the client's session
    storeStatus,         \* the store's status of the client's session
    sent,                \* what the client sent on its WebSocket
    handled,             \* server messages the client has handled
    sessionId,           \* the sessionId the hook's effect last ran for
    replayDue,           \* the client's 'subscribe' has no 'logs' reply yet
    serverLog,           \* what getLogs gives for the tracked session
    serverDeleted,       \* the server has deleted the tracked session
    reply,               \* the 'logs' message the server has sent in answer
                         \* to the client's subscribe, until it is handled
    inbox,               \* the 'data' and 'exit' messages the server has sent
                         \* to the client's socket, until they are handled
    run                  \* the raw lines handled since the last user line,
                         \* tool line, input or exit

vars == <<sessions, sess, procs, sessionConnections, readyState,
          subscribedSessionId, received, nSubs, published,
          subMark, parserRef, sessionMessages, messageCounter, wsRef,
          sessionLogs, storeStatus, sent, handled, sessionId, replayDue,
          serverLog, serverDeleted, reply, inbox, run>>

registryVars == <<sessions, sess, procs>>
wsVars       == <<sessionConnections, readyState, subscribedSessionId,
                  received, nSubs, published, subMark>>
serverVars   == <<registryVars, wsVars>>
clientVars   == <<parserRef, sessionMessages, messageCounter, wsRef,
                  sessionLogs, storeStatus, sent, handled, sessionId,
                  replayDue, serverLog, serverDeleted, reply, inbox, run>>

\* ------------------------------------------------------------ the registry
Created == 1..Len(sess)

RECURSIVE Chunks(_)
Chunks(n) == IF n = 0 THEN 0 ELSE procs[n].out + Chunks(n - 1)

Load == Len(sess) + Len(procs) + Chunks(Len(procs)) + nSubs

NewSession == [pty |-> NULL, status |-> "stopped", logs |-> <<>>]

StdoutEntry(data) == [type |-> "stdout", content |-> data]

\* `Process exited with code ${exitCode}`
ExitText(exitCode) == <<"Process exited with code ", ToString(exitCode)>>

SystemEntry(exitCode) == [type |-> "system", content |-> ExitText(exitCode)]

\* The k-th chunk a process writes to its terminal.
Chunk(p, k) == <<"out", p, k>>

\* A slice that keeps the oldest n entries.
SliceLast_first(s, n) == IF Len(s) <= n THEN s ELSE SubSeq(s, 1, n)

\* Array.prototype.slice(-n) for n > 0.
SliceLast(s, n) == IF Len(s) <= n THEN s ELSE SubSeq(s, Len(s) - n + 1, Len(s))

Truthy(limit) == limit # Undefined /\ limit # 0

\* A getLogs that misses the newest entry.
GetLogs_stale(id, limit) ==
    IF id \notin sessions \/ sess[id].logs = <<>> THEN <<>>
    ELSE SubSeq(sess[id].logs, 1, Len(sess[id].logs) - 1)

GetLogs(id, limit) ==
    IF id \notin sessions THEN <<>>
    ELSE IF Truthy(limit) THEN SliceLast(sess[id].logs, limit)
    ELSE sess[id].logs

NewProcess(id) == [sid |-> id, state |-> "live", out |-> 0]

\* pty.kill(): the signal is sent; the exit is reported later by onExit.
Kill(p) == [procs EXCEPT ![p].state = IF @ = "live" THEN "killed" ELSE @]

Running(s) == [s EXCEPT !.status = "running"]

\* A stop that leaves the status as it was.
Stopped_keep(s) == s

Stopped(s) == [s EXCEPT !.status = "stopped"]

Errored(s) == [s EXCEPT !.status = "error"]

\* ------------------------------------------------------------- the fanout
DataMessage(sid, data) ==
    [type |-> "data", sid |-> sid, data |-> data, dataType |-> "stdout"]

ExitMessage(sid, exitCode) ==
    [type |-> "exit", sid |-> sid, exitCode |-> exitCode]

LogsMessage(logs) == [type |-> "logs", logs |-> logs]

\* A fanout that hands each event to one subscriber only.
FanoutTargets_one(sid) ==
    IF sid \in DOMAIN sessionConnections
    THEN LET open == {c \in sessionConnections[sid] : readyState[c] = "OPEN"}
         IN IF open = {} THEN {} ELSE {CHOOSE c \in open : TRUE}
    ELSE {}

\* A fanout that hands each event to every open subscriber of any session.
FanoutTargets_all(sid) ==
    {c \in Conns : /\ readyState[c] = "OPEN"
                   /\ \E s \in DOMAIN sessionConnections :
                         c \in sessionConnections[s]}

\* connections.forEach(ws => { if (ws.readyState === WebSocket.OPEN) ... })
FanoutTargets(sid) ==
    IF sid \in DOMAIN sessionConnections
    THEN {c \in sessionConnections[sid] : readyState[c] = "OPEN"}
    ELSE {}

Forward(sid, msg) ==
    /\ received' = [c \in Conns |->
                      IF c \in FanoutTargets(sid)
                      THEN Append(received[c], msg) ELSE received[c]]
    /\ published' = [published EXCEPT ![sid] = Append(@, msg)]

\* ------------------------------------------------------ the browser client
\* A chunk of output, an input and a message's content are strings; a string
\* is the sequence of its pieces: the newline, an escape sequence, or a
\* stretch of text between them.  Concatenation is \o.
NL    == "\n"
ESC   == "^[[0m"      \* \x1B[0m
CtrlC == "^C"         \* \x03

EscapeSequences  == {ESC}
WhitespaceTokens == {"  ", NL}
UiTokens         == {"MCP server connected"}
ShortTokens      == {"--"}
SingleCharTokens == {"x"}
SkipTokens       == {"bypass permissions on", "MCP server connected"}
UserTokens       == {"> hi", "You:"}
AssistantTokens  == {"Claude: ok"}
ToolTokens       == {"Bash: ls -la"}
ErrorTokens      == {"Error: boom"}
SystemTokens     == {"Process exited with code ", "Process exited with code",
                     "Connection lost"}

\* The .replace(...) chain of processData: escape sequences and control
\* characters are removed.
StripAnsi(data) == SelectSeq(data, LAMBDA t : t \notin EscapeSequences \cup {CtrlC})

\* String.prototype.split('\n')
RECURSIVE Split(_)
Split(data) ==
    IF \A i \in 1..Len(data) : data[i] # NL THEN <<data>>
    ELSE LET k == CHOOSE i \in 1..Len(data) :
                     data[i] = NL /\ \A j \in 1..(i - 1) : data[j] # NL
         IN <<SubSeq(data, 1, k - 1)>> \o Split(SubSeq(data, k + 1, Len(data)))

\* String.prototype.trim() on one piece of text: the blanks at its start,
\* and those at its end.
TrimToken(t) == IF t = " world" THEN "world" ELSE t

TrimEndToken(t) ==
    IF t = "Process exited with code " THEN "Process exited with code" ELSE t

RECURSIVE TrimStart(_)
TrimStart(line) ==
    IF line = <<>> THEN <<>>
    ELSE IF Head(line) \in WhitespaceTokens THEN TrimStart(Tail(line))
    ELSE <<TrimToken(Head(line))>> \o Tail(line)

RECURSIVE TrimEnd(_)
TrimEnd(line) ==
    IF line = <<>> THEN <<>>
    ELSE IF line[Len(line)] \in WhitespaceTokens
         THEN TrimEnd(SubSeq(line, 1, Len(line) - 1))
    ELSE SubSeq(line, 1, Len(line) - 1) \o <<TrimEndToken(line[Len(line)])>>

Trim(line) == TrimEnd(TrimStart(line))

Includes(data, tokens) == \E i \in 1..Len(data) : data[i] \in tokens

StartsWith(data, tokens) == data # <<>> /\ Head(data) \in tokens

\* uiPatterns.some(p => p.test(trimmed))
UiPattern(trimmed) == Includes(trimmed, UiTokens)

\* trimmed.length < 3 && !/[a-zA-Z]/.test(trimmed)
ShortNoAlpha(trimmed) == Len(trimmed) = 1 /\ trimmed[1] \in ShortTokens

\* What follows the prompt marker of a user line.
PromptText(t) == IF t = "> hi" THEN <<"hi">> ELSE <<>>

ToolName(t) == IF t = "Bash: ls -la" THEN "Bash" ELSE ""

\* data.substring(toolMatch[0].length)
ToolInput(data) ==
    (IF Head(data) = "Bash: ls -la" THEN <<" ls -la">> ELSE <<>>) \o Tail(data)

ParseClaudeOutput(data) ==
    LET trimmed == Trim(data)
    IN IF trimmed = <<>> \/ (Len(trimmed) = 1 /\ trimmed[1] \in SingleCharTokens)
       THEN [type |-> "skip", content |-> <<>>]
       ELSE IF Includes(trimmed, SkipTokens)
       THEN [type |-> "skip", content |-> <<>>]
       ELSE IF StartsWith(data, UserTokens)
       THEN IF Trim(PromptText(Head(data)) \o Tail(data)) # <<>>
            THEN [type |-> "user",
                  content |-> Trim(PromptText(Head(data)) \o Tail(data))]
            ELSE [type |-> "skip", content |-> <<>>]
       ELSE IF StartsWith(data, AssistantTokens)
       THEN [type |-> "assistant", content |-> <<"ok">> \o Tail(data)]
       ELSE IF StartsWith(data, ToolTokens)
       THEN [type |-> "tool", content |-> data,
             toolName |-> ToolName(Head(data)), toolInput |-> ToolInput(data)]
       ELSE IF Includes(data, SystemTokens) \/ StartsWith(data, ErrorTokens)
       THEN [type |-> "system", content |-> data]
       ELSE [type |-> "raw", content |-> data]

\* How processData treats a line: "skip" for the lines it drops, else the
\* type parseClaudeOutput gives its trimmed text.
LineType(line) ==
    IF Trim(line) = <<>> \/ UiPattern(Trim(line)) \/ ShortNoAlpha(Trim(line))
    THEN "skip"
    ELSE ParseClaudeOutput(Trim(line)).type

\* The store and the parser, as one value: [parser, messages, counter].
NoRole == "null"

NoOptions == [isStreaming |-> FALSE]

ResetParser == [currentRole |-> NoRole, buffer |-> <<>>, currentMessageId |-> NULL]

\* msg_${++messageCounter}_${Date.now()}
GenerateMessageId(counter) == counter + 1

CreateMessage(counter, role, content, options) ==
    options @@ [id |-> GenerateMessageId(counter), role |-> role,
                content |-> content, isStreaming |-> FALSE]

AddMessage(messages, message) == Append(messages, message)

UpdateMessage(messages, messageId, updates) ==
    [i \in 1..Len(messages) |->
        IF messages[i].id = messageId THEN updates @@ messages[i]
        ELSE messages[i]]

\* parser.currentRole === 'assistant' && parser.currentMessageId
OpenAccumulation(parser) ==
    parser.currentRole = "assistant" /\ parser.currentMessageId # NULL

\* A user line that also shows up as a message of the transcript.
UserLine_emit(st) ==
    [st EXCEPT !.messages = AddMessage(@, CreateMessage(st.counter, "user",
                                                        <<"hi">>, NoOptions)),
               !.counter = @ + 1]

UserLine(st) ==
    IF OpenAccumulation(st.parser)
    THEN [st EXCEPT !.messages = UpdateMessage(@, st.parser.currentMessageId,
                                               [isStreaming |-> FALSE]),
                    !.parser = ResetParser]
    ELSE st

\* A tool line whose text goes into the open assistant message.
ToolLine_append(st, parsed) ==
    IF OpenAccumulation(st.parser)
    THEN [st EXCEPT !.messages =
                        UpdateMessage(@, st.parser.currentMessageId,
                                      [content |-> st.parser.buffer \o <<NL>>
                                                       \o parsed.content]),
                    !.parser = ResetParser]
    ELSE st

ToolLine(st, parsed) ==
    LET flushed == IF OpenAccumulation(st.parser)
                   THEN UpdateMessage(st.messages, st.parser.currentMessageId,
                                      [isStreaming |-> FALSE])
                   ELSE st.messages
        toolMsg == CreateMessage(st.counter, "tool", parsed.content,
                                 [toolName |-> parsed.toolName,
                                  toolInput |-> parsed.toolInput])
    IN [parser   |-> [st.parser EXCEPT !.currentRole = NoRole,
                                       !.currentMessageId = NULL],
        messages |-> AddMessage(flushed, toolMsg),
        counter  |-> st.counter + 1]

\* A system line that closes the open assistant message on its way.
SystemLine_flush(st, parsed) ==
    LET closed == UserLine(st)
    IN [closed EXCEPT !.messages = AddMessage(@, CreateMessage(st.counter, "system",
                                                   parsed.content, NoOptions)),
                      !.counter = @ + 1]

SystemLine(st, parsed) ==
    [st EXCEPT !.messages = AddMessage(@, CreateMessage(st.counter, "system",
                                                        parsed.content, NoOptions)),
               !.counter = @ + 1]

\* The raw branch opening a message for every line.
RawLine_new(st, line) ==
    LET assistantMsg == CreateMessage(st.counter, "assistant", line,
                                      [isStreaming |-> TRUE])
    IN [parser   |-> [currentRole |-> "assistant", buffer |-> line,
                      currentMessageId |-> assistantMsg.id],
        messages |-> AddMessage(st.messages, assistantMsg),
        counter  |-> st.counter + 1]

RawLine(st, line) ==
    IF ~OpenAccumulation(st.parser)
    THEN LET assistantMsg == CreateMessage(st.counter, "assistant", line,
                                           [isStreaming |-> TRUE])
         IN [parser   |-> [currentRole |-> "assistant", buffer |-> line,
                           currentMessageId |-> assistantMsg.id],
             messages |-> AddMessage(st.messages, assistantMsg),
             counter  |-> st.counter + 1]
    ELSE LET buffer == st.parser.buffer \o <<NL>> \o line
         IN [st EXCEPT !.parser.buffer = buffer,
                       !.messages = UpdateMessage(@, st.parser.currentMessageId,
                                        [content |-> buffer, isStreaming |-> TRUE])]

\* One turn of the loop 'for (const line of lines)'.
ProcessLine(st, line) ==
    LET trimmed == Trim(line)
        parsed  == ParseClaudeOutput(trimmed)
    IN IF LineType(line) = "skip" THEN st
       ELSE IF parsed.type = "user" THEN UserLine(st)
       ELSE IF parsed.type = "tool" THEN ToolLine(st, parsed)
       ELSE IF parsed.type = "system" THEN SystemLine(st, parsed)
       ELSE RawLine(st, line)

RECURSIVE ProcessLines(_, _)
ProcessLines(st, lines) ==
    IF lines = <<>> THEN st
    ELSE ProcessLines(ProcessLine(st, Head(lines)), Tail(lines))

ProcessData(st, data) == ProcessLines(st, Split(StripAnsi(data)))

\* message.logs.forEach(log => processData(sessionId, log.content))
RECURSIVE ProcessLogs(_, _)
ProcessLogs(st, logs) ==
    IF logs = <<>> THEN st
    ELSE ProcessLogs(ProcessData(st, Head(logs).content), Tail(logs))

\* The raw lines handled since the last user line, tool line, input or exit.
RunAfterLine(r, line) ==
    IF LineType(line) \in {"raw", "assistant"} THEN Append(r, line)
    ELSE IF LineType(line) \in {"user", "tool"} THEN <<>>
    ELSE r

RECURSIVE RunAfterLines(_, _)
RunAfterLines(r, lines) ==
    IF lines = <<>> THEN r
    ELSE RunAfterLines(RunAfterLine(r, Head(lines)), Tail(lines))

RunAfterData(r, data) == RunAfterLines(r, Split(StripAnsi(data)))

RECURSIVE RunAfterLogs(_, _)
RunAfterLogs(r, logs) ==
    IF logs = <<>> THEN r
    ELSE RunAfterLogs(RunAfterData(r, Head(logs).content), Tail(logs))

\* What the server sends in a run of the client: output chunks, the replay
\* on subscribing, and what the user types.
DataInputs ==
    { <<"Hello">>,
      <<" world", NL>>,
      <<"Bash: ls -la">>,
      <<"> hi", NL>>,
      <<"Error: boom", NL>>,
      <<"one", NL, "two", NL>>,
      <<"Bash: ls -la", "Connection lost", NL>>,
      <<ESC, "MCP server connected", NL, "--", NL, "x", NL,
        "bypass permissions on", NL, "You:", NL, "  ", NL,
        "Bash: ls -la", "bypass permissions on", NL>> }

\* What the process writes, and the code it exits with, while no message of
\* it reaches this client.
AwayData == { <<"Hello">>, <<"> hi", NL>> }

AwayExitCodes == {0}

\* The logs the server replays for the other session.
LogInputs == { <<>>, <<StdoutEntry(<<"Hello">>), SystemEntry(0)>> }

InputData == { <<"hi", NL>>, <<NL>>, <<CtrlC>> }

\* ------------------------------------------------------------------- Init
\* The server has started, no session exists yet, and MaxConns clients have
\* connected (wss 'connection' ran for each: subscribedSessionId = null).
\* In the browser a component has mounted useSession(sessionId): the parser
\* is reset and the WebSocket is connecting.
Init ==
    /\ sessions = {}
    /\ sess = <<>>
    /\ procs = <<>>
    /\ sessionConnections = <<>>
    /\ readyState = [c \in Conns |-> "OPEN"]
    /\ subscribedSessionId = [c \in Conns |-> NULL]
    /\ received = [c \in Conns |-> <<>>]
    /\ nSubs = 0
    /\ published = <<>>
    /\ subMark = [c \in Conns |-> [pub |-> 0, recv |-> 0]]
    /\ parserRef = ResetParser
    /\ sessionMessages = <<>>
    /\ messageCounter = 0
    /\ wsRef = "CONNECTING"
    /\ sessionLogs = <<>>
    /\ storeStatus = "running"
    /\ sent = <<>>
    /\ handled = 0
    /\ sessionId = ThisSession
    /\ replayDue = FALSE
    /\ serverLog = <<>>
    /\ serverDeleted = FALSE
    /\ reply = <<>>
    /\ inbox = <<>>
    /\ run = <<>>

\* ------------------------------------------------- SessionManager methods
\* What each method returns, from the state it is called in.  id is any
\* string a caller passes; spawnOk tells whether pty.spawn returns or throws.
HasPty(id) == id \in sessions /\ sess[id].pty # NULL

StartSessionResult(id, spawnOk) == id \in sessions /\ spawnOk

SendInputResult(id) == HasPty(id)

ResizeSessionResult(id) == HasPty(id)

StopSessionResult(id) == HasPty(id)

DeleteSessionResult(id) == id \in sessions

\* The process a call passes on to: pty.write, pty.resize, pty.kill.
PtyTarget(id) == IF HasPty(id) THEN {sess[id].pty} ELSE {}

StopSessionEmits(id) == IF HasPty(id) THEN {"session:stopped"} ELSE {}

CreateSession ==
    /\ Load < MaxLoad
    /\ sess' = Append(sess, NewSession)
    /\ sessions' = sessions \cup {Len(sess) + 1}
    /\ published' = Append(published, <<>>)
    /\ UNCHANGED <<procs, sessionConnections, readyState, subscribedSessionId,
                   received, nSubs, subMark, clientVars>>

StartNotFound(id) ==
    /\ id \notin sessions
    /\ UNCHANGED <<registryVars, wsVars, clientVars>>

StartSpawned(id) ==
    /\ id \in sessions
    /\ Load < MaxLoad
    /\ procs' = Append(procs, NewProcess(id))
    /\ sess' = [sess EXCEPT ![id] = Running([@ EXCEPT !.pty = Len(procs) + 1])]
    /\ UNCHANGED <<sessions, wsVars, clientVars>>

StartSpawnFailed(id) ==
    /\ id \in sessions
    /\ sess' = [sess EXCEPT ![id] = Errored(@)]
    /\ UNCHANGED <<sessions, procs, wsVars, clientVars>>

\* pty.write(data) and pty.resize(cols, rows) act on the child's terminal:
\* nothing the server holds changes.
SendInput(id) == UNCHANGED <<registryVars, wsVars, clientVars>>

ResizeSession(id) == UNCHANGED <<registryVars, wsVars, clientVars>>

StopSession(id) ==
    /\ IF HasPty(id)
       THEN /\ procs' = Kill(sess[id].pty)
            /\ sess' = [sess EXCEPT ![id] = Stopped(@)]
       ELSE UNCHANGED <<procs, sess>>
    /\ UNCHANGED <<sessions, wsVars, clientVars>>

DeleteSession(id) ==
    /\ IF id \in sessions
       THEN /\ procs' = IF sess[id].pty # NULL THEN Kill(sess[id].pty) ELSE procs
            /\ sessions' = sessions \ {id}
       ELSE UNCHANGED <<procs, sessions>>
    /\ UNCHANGED <<sess, wsVars, clientVars>>

\* ------------------------------------------------------- the pty callbacks
OnData(p) ==
    /\ procs[p].state # "exited"
    /\ LET sid  == procs[p].sid
           data == Chunk(p, procs[p].out + 1)
       IN /\ procs' = [procs EXCEPT ![p].out = @ + 1]
          /\ sess' = [sess EXCEPT ![sid].logs = Append(@, StdoutEntry(data))]
          /\ Forward(sid, DataMessage(sid, data))
    /\ UNCHANGED <<sessions, sessionConnections, readyState,
                   subscribedSessionId, nSubs, subMark, clientVars>>

OnExit(p, exitCode) ==
    /\ procs[p].state # "exited"
    /\ LET sid == procs[p].sid
       IN /\ procs' = [procs EXCEPT ![p].state = "exited"]
          /\ sess' = [sess EXCEPT ![sid] =
                        [Stopped(@) EXCEPT !.logs = Append(@, SystemEntry(exitCode))]]
          /\ Forward(sid, ExitMessage(sid, exitCode))
    /\ UNCHANGED <<sessions, sessionConnections, readyState,
                   subscribedSessionId, nSubs, subMark, clientVars>>

\* --------------------------------------------------- the WebSocket server
AddConnection(sid, c) ==
    IF sid \in DOMAIN sessionConnections
    THEN [sessionConnections EXCEPT ![sid] = @ \cup {c}]
    ELSE sessionConnections @@ (sid :> {c})

RemoveConnection(sid, c) ==
    IF sid \in DOMAIN sessionConnections
    THEN [sessionConnections EXCEPT ![sid] = @ \ {c}]
    ELSE sessionConnections

\* if (subscribedSessionId): null and the empty string are falsy.
Subscribed(id) == id \notin {NULL, EmptyId}

PublishedLen(sid) == IF sid \in Created THEN Len(published[sid]) ELSE 0

WsSubscribe(c, sid) ==
    /\ readyState[c] = "OPEN"
    /\ nSubs' = nSubs + 1
    /\ subscribedSessionId' = [subscribedSessionId EXCEPT ![c] = sid]
    /\ sessionConnections' = AddConnection(sid, c)
    /\ received' = [received EXCEPT ![c] =
                      Append(@, LogsMessage(GetLogs(sid, LogReplayLimit)))]
    /\ subMark' = [subMark EXCEPT ![c] =
                      [pub |-> PublishedLen(sid), recv |-> Len(received[c]) + 1]]
    /\ UNCHANGED <<registryVars, readyState, published, clientVars>>

WsInput(c) ==
    /\ readyState[c] = "OPEN"
    /\ IF Subscribed(subscribedSessionId[c])
       THEN SendInput(subscribedSessionId[c])
       ELSE UNCHANGED <<registryVars, wsVars, clientVars>>

WsResize(c) ==
    /\ readyState[c] = "OPEN"
    /\ IF Subscribed(subscribedSessionId[c])
       THEN ResizeSession(subscribedSessionId[c])
       ELSE UNCHANGED <<registryVars, wsVars, clientVars>>

WsUnsubscribe(c) ==
    /\ readyState[c] = "OPEN"
    /\ IF Subscribed(subscribedSessionId[c])
       THEN /\ sessionConnections' = RemoveConnection(subscribedSessionId[c], c)
            /\ subscribedSessionId' = [subscribedSessionId EXCEPT ![c] = NULL]
       ELSE UNCHANGED <<sessionConnections, subscribedSessionId>>
    /\ UNCHANGED <<registryVars, readyState, received, nSubs,
                   published, subMark, clientVars>>

WsClose(c) ==
    /\ readyState[c] = "OPEN"
    /\ readyState' = [readyState EXCEPT ![c] = "CLOSED"]
    /\ sessionConnections' =
          IF Subscribed(subscribedSessionId[c])
          THEN RemoveConnection(subscribedSessionId[c], c)
          ELSE sessionConnections
    /\ UNCHANGED <<registryVars, subscribedSessionId, received,
                   nSubs, published, subMark, clientVars>>

\* ------------------------------------------------------ the client's hooks
\* useSession(sessionId) of one mounted component: its WebSocket, its parser
\* and the store's entries for sessionId.  The store's entries of
\* ThisSession are tracked; those of the other session are not, and neither
\* the parser nor the id counter depends on them.
Here == sessionId = ThisSession

\* The store has no entry for the session (removeSession deleted it).
Absent == "absent"

Client == [parser |-> parserRef,
           messages |-> IF Here THEN sessionMessages ELSE <<>>,
           counter |-> messageCounter]

SetClient(st) ==
    /\ parserRef' = st.parser
    /\ sessionMessages' = IF Here THEN st.messages ELSE sessionMessages
    /\ messageCounter' = st.counter

\* The messages the client has handled or has still to handle, and those it
\* has sent.
ClientLoad == handled + Len(inbox) + Len(sent)

\* The client has handled the replay of its subscription: the 'data' and
\* 'exit' messages sent after the replay are the next ones it handles.
Receiving == wsRef = "OPEN" /\ ~replayDue

\* The server has handled the subscribe of the client's open socket, and the
\* subscribe named sid: the socket is in sessionConnections.get(sid), and
\* what session sid emits is sent to it.
Forwarded(sid) ==
    sessionId = sid /\ wsRef = "OPEN" /\ (reply # <<>> \/ ~replayDue)

\* pty.onData of a process of session sid: the chunk is pushed onto
\* session.logs and emitted as session:data, which the forwarder sends to
\* the subscribers of sid.  The log of the tracked session is serverLog, as
\* long as the server has the session.
ServerWrote(sid, data) ==
    /\ serverLog' = IF sid = ThisSession /\ ~serverDeleted
                    THEN Append(serverLog, StdoutEntry(data)) ELSE serverLog
    /\ inbox' = IF Forwarded(sid)
                THEN Append(inbox, DataMessage(sid, data)) ELSE inbox
    /\ UNCHANGED <<parserRef, sessionMessages, messageCounter, wsRef,
                   sessionLogs, storeStatus, sent, handled, sessionId,
                   replayDue, run, serverVars, serverDeleted, reply>>

\* pty.onExit of a process of session sid: the system entry is pushed onto
\* session.logs and session:exit is emitted and forwarded.
ServerExited(sid, exitCode) ==
    /\ serverLog' = IF sid = ThisSession /\ ~serverDeleted
                    THEN Append(serverLog, SystemEntry(exitCode)) ELSE serverLog
    /\ inbox' = IF Forwarded(sid)
                THEN Append(inbox, ExitMessage(sid, exitCode)) ELSE inbox
    /\ UNCHANGED <<parserRef, sessionMessages, messageCounter, wsRef,
                   sessionLogs, storeStatus, sent, handled, sessionId,
                   replayDue, run, serverVars, serverDeleted, reply>>

\* sessionManager.deleteSession for the tracked session, on DELETE
\* /api/sessions/:id: getLogs gives [] for it from now on.
ServerDeleted ==
    /\ ~serverDeleted
    /\ serverDeleted' = TRUE
    /\ serverLog' = <<>>
    /\ UNCHANGED <<parserRef, sessionMessages, messageCounter, wsRef,
                   sessionLogs, storeStatus, sent, handled, sessionId,
                   replayDue, run, serverVars, reply, inbox>>

\* What the server answers a subscribe with, when it handles it:
\* getLogs(sessionId, 100).
ServerReplays ==
    IF Here THEN {SliceLast(serverLog, LogReplayLimit)} ELSE LogInputs

\* case 'subscribe' on the server, for the subscribe of the client's socket
ServerSubscribed(logs) ==
    /\ replayDue
    /\ reply = <<>>
    /\ reply' = <<logs>>
    /\ UNCHANGED <<parserRef, sessionMessages, messageCounter, wsRef,
                   sessionLogs, storeStatus, sent, handled, sessionId,
                   replayDue, serverLog, run, serverVars, serverDeleted, inbox>>

\* The 'logs' message the client's socket has for ws.onmessage.
ReplayInputs == {reply[i] : i \in 1..Len(reply)}

\* ws.onopen
ClientOpen ==
    /\ wsRef = "CONNECTING"
    /\ wsRef' = "OPEN"
    /\ sent' = Append(sent, [type |-> "subscribe", sessionId |-> sessionId])
    /\ replayDue' = TRUE
    /\ UNCHANGED <<parserRef, sessionMessages, messageCounter, sessionLogs,
                   storeStatus, handled, sessionId, serverLog, run, serverVars,
                   serverDeleted, reply, inbox>>

\* ws.onmessage, case 'logs': the first message of the subscription.
ClientOnLogs(logs) ==
    /\ wsRef = "OPEN"
    /\ replayDue
    /\ reply = <<logs>>
    /\ replayDue' = FALSE
    /\ reply' = <<>>
    /\ handled' = handled + 1
    /\ sessionLogs' = IF Here THEN logs ELSE sessionLogs
    /\ SetClient(ProcessLogs(Client, logs))
    /\ run' = IF Here THEN RunAfterLogs(run, logs) ELSE run
    /\ UNCHANGED <<wsRef, storeStatus, sent, sessionId, serverLog, serverVars,
                   serverDeleted, inbox>>

\* The message of the socket that ws.onmessage runs for next.
NextMessage(msg) == Receiving /\ inbox # <<>> /\ Head(inbox) = msg

\* ws.onmessage, case 'data': appendLog and processData for the chunk.
ClientOnData(data) ==
    /\ NextMessage(DataMessage(sessionId, data))
    /\ inbox' = Tail(inbox)
    /\ handled' = handled + 1
    /\ sessionLogs' = IF Here THEN Append(sessionLogs, StdoutEntry(data))
                      ELSE sessionLogs
    /\ SetClient(ProcessData(Client, data))
    /\ run' = IF Here THEN RunAfterData(run, data) ELSE run
    /\ UNCHANGED <<wsRef, storeStatus, sent, sessionId, replayDue, serverLog,
                   serverVars, serverDeleted, reply>>

\* ws.onmessage, case 'exit'; updateSession changes a session the store has.
ClientOnExit(exitCode) ==
    /\ NextMessage(ExitMessage(sessionId, exitCode))
    /\ inbox' = Tail(inbox)
    /\ handled' = handled + 1
    /\ storeStatus' = IF Here /\ storeStatus # Absent THEN "stopped"
                      ELSE storeStatus
    /\ LET closed == IF parserRef.currentMessageId # NULL
                     THEN UpdateMessage(Client.messages, parserRef.currentMessageId,
                                        [isStreaming |-> FALSE])
                     ELSE Client.messages
       IN sessionMessages' =
              IF Here
              THEN AddMessage(closed, CreateMessage(messageCounter, "system",
                                                    ExitText(exitCode), NoOptions))
              ELSE sessionMessages
    /\ messageCounter' = messageCounter + 1
    /\ run' = IF Here THEN <<>> ELSE run
    /\ UNCHANGED <<parserRef, wsRef, sessionLogs, sent, sessionId, replayDue,
                   serverLog, serverVars, serverDeleted, reply>>

\* data.replace(/\n$/, '')
StripFinalNewline(data) ==
    IF data # <<>> /\ data[Len(data)] = NL
    THEN SubSeq(data, 1, Len(data) - 1) ELSE data

\* data.trim() && data !== '\x03'
ShownAsUser(data) == Trim(data) # <<>> /\ data # <<CtrlC>>

\* sendInput(data) of the hook
ClientSendInput(data) ==
    IF wsRef = "OPEN"
    THEN /\ IF ShownAsUser(data)
            THEN LET userMsg == CreateMessage(messageCounter, "user",
                                              StripFinalNewline(data), NoOptions)
                     added == [parser   |-> parserRef,
                               messages |-> AddMessage(Client.messages, userMsg),
                               counter  |-> messageCounter + 1]
                 IN SetClient(UserLine(added))
            ELSE UNCHANGED <<parserRef, sessionMessages, messageCounter>>
         /\ sent' = Append(sent, [type |-> "input", data |-> data])
         /\ run' = IF Here THEN <<>> ELSE run
         /\ UNCHANGED <<wsRef, sessionLogs, storeStatus, handled, sessionId,
                        replayDue, serverLog, serverVars, serverDeleted, reply, inbox>>
    ELSE UNCHANGED vars

\* resize(cols, rows) of the hook
ClientResize ==
    IF wsRef = "OPEN"
    THEN /\ sent' = Append(sent, [type |-> "resize"])
         /\ UNCHANGED <<parserRef, sessionMessages, messageCounter, wsRef,
                        sessionLogs, storeStatus, handled, sessionId, replayDue,
                        serverLog, run, serverVars, serverDeleted, reply, inbox>>
    ELSE UNCHANGED vars

\* ws.onclose: the connection attempt failed, the server or the network
\* closed the socket, or close() of the cleanup has completed.
ClientClose ==
    /\ wsRef \in {"CONNECTING", "OPEN", "CLOSING"}
    /\ wsRef' = "CLOSED"
    /\ UNCHANGED <<parserRef, sessionMessages, messageCounter, sessionLogs,
                   storeStatus, sent, handled, sessionId, replayDue, serverLog,
                   run, serverVars, serverDeleted, reply, inbox>>

\* The 'subscribe' messages the hook has sent.
Subscribes == Cardinality({i \in 1..Len(sent) : sent[i].type = "subscribe"})

\* sessionId changes to next (NULL: no session, or the component unmounts).
\* The cleanup of the effect's previous run sends 'unsubscribe' on an open
\* socket and closes it; for a next that is not null the effect then runs
\* again in the same commit: it resets the parser and makes a new WebSocket.
\* With no next session the parser stays as it is.
ClientSetSessionId(next) ==
    /\ next # sessionId
    /\ sessionId' = next
    /\ sent' = IF sessionId # NULL /\ wsRef = "OPEN"
               THEN Append(sent, [type |-> "unsubscribe"]) ELSE sent
    /\ wsRef' = IF next # NULL THEN "CONNECTING"
                ELSE IF wsRef \in {"CONNECTING", "OPEN"} THEN "CLOSING"
                ELSE wsRef
    /\ parserRef' = IF next # NULL THEN ResetParser ELSE parserRef
    /\ replayDue' = FALSE
    /\ reply' = <<>>
    /\ inbox' = <<>>
    /\ run' = IF next # NULL THEN <<>> ELSE run
    /\ UNCHANGED <<sessionMessages, messageCounter, sessionLogs, storeStatus,
                   handled, serverLog, serverVars, serverDeleted>>

\* ------------------------------------------------ the store, from the UI
\* clearLogs(sessionId) of the log panel
ClientClearLogs ==
    /\ sessionLogs # <<>>
    /\ sessionLogs' = <<>>
    /\ UNCHANGED <<parserRef, sessionMessages, messageCounter, wsRef,
                   storeStatus, sent, handled, sessionId, replayDue, serverLog,
                   run, serverVars, serverDeleted, reply, inbox>>

\* updateSession(id, {status}) after the start and stop buttons
ClientUpdateSession(status) ==
    /\ storeStatus \notin {Absent, status}
    /\ storeStatus' = status
    /\ UNCHANGED <<parserRef, sessionMessages, messageCounter, wsRef,
                   sessionLogs, sent, handled, sessionId, replayDue, serverLog,
                   run, serverVars, serverDeleted, reply, inbox>>

\* removeSession(id), which the UI calls when the server has answered the
\* DELETE: the store drops the session with its logs and messages.
ClientRemoveSession ==
    /\ serverDeleted
    /\ storeStatus # Absent \/ sessionLogs # <<>> \/ sessionMessages # <<>>
    /\ storeStatus' = Absent
    /\ sessionMessages' = <<>>
    /\ sessionLogs' = <<>>
    /\ UNCHANGED <<parserRef, messageCounter, wsRef, sent, handled, sessionId,
                   replayDue, serverLog, run, serverVars, serverDeleted, reply, inbox>>

\* ------------------------------------------------------------------- Next
\* The ids a caller can name: every id createSession returned, and one that
\* it never returned.
CallIds == Created \cup {BogusId}

\* The ids a 'subscribe' message can carry: any of these, or a falsy one.
SubscribeIds == CallIds \cup {EmptyId}

Next ==
    \/ CreateSession
    \/ \E id \in CallIds : StartSpawned(id)
    \/ \E id \in CallIds : StopSession(id)
    \/ \E id \in CallIds : DeleteSession(id)
    \/ \E id \in CallIds : SendInput(id)
    \/ \E id \in CallIds : ResizeSession(id)
    \/ \E id \in CallIds : StartNotFound(id)
    \/ \E id \in CallIds : StartSpawnFailed(id)
    \/ \E p \in DOMAIN procs : Load < MaxLoad /\ OnData(p)
    \/ \E p \in DOMAIN procs, exitCode \in ExitCodes : OnExit(p, exitCode)
    \/ \E c \in Conns, sid \in SubscribeIds : Load < MaxLoad /\ WsSubscribe(c, sid)
    \/ \E c \in Conns : WsInput(c)
    \/ \E c \in Conns : WsResize(c)
    \/ \E c \in Conns : WsUnsubscribe(c)
    \/ \E c \in Conns : WsClose(c)

Spec == Init /\ [][Next]_vars

\* The registry alone: the calls of SessionManager and the callbacks of its
\* processes, with no client subscribing.
NextRegistry ==
    \/ CreateSession
    \/ \E id \in CallIds : StartSpawned(id)
    \/ \E id \in CallIds : StopSession(id)
    \/ \E id \in CallIds : DeleteSession(id)
    \/ \E id \in CallIds : SendInput(id)
    \/ \E id \in CallIds : ResizeSession(id)
    \/ \E id \in CallIds : StartNotFound(id)
    \/ \E id \in CallIds : StartSpawnFailed(id)
    \/ \E p \in DOMAIN procs : Load < MaxLoad /\ OnData(p)
    \/ \E p \in DOMAIN procs, exitCode \in ExitCodes : OnExit(p, exitCode)

SpecRegistry == Init /\ [][NextRegistry]_vars

\* The replay: one session, one process that writes up to MaxBacklog chunks
\* and exits, and MaxReplaySubs subscriptions made at any moment of the run.
NextReplay ==
    \/ Len(sess) = 0 /\ CreateSession
    \/ \E id \in CallIds : Len(procs) = 0 /\ StartSpawned(id)
    \/ \E p \in DOMAIN procs : procs[p].out < MaxBacklog /\ OnData(p)
    \/ \E p \in DOMAIN procs, exitCode \in ExitCodes : OnExit(p, exitCode)
    \/ \E c \in Conns, sid \in SubscribeIds :
          nSubs < MaxReplaySubs /\ WsSubscribe(c, sid)

SpecReplay == Init /\ [][NextReplay]_vars

\* The sessions a process of which writes and exits in a run of the client.
Emitters == {ThisSession, OtherSession}

\* What a process of session sid writes, and the codes it exits with: any
\* of the inputs when the client is sent it, and AwayData and AwayExitCodes
\* when it reaches the client in a later replay only.
WriteInputs(sid) == IF Forwarded(sid) THEN DataInputs ELSE AwayData

ExitInputs(sid) == IF Forwarded(sid) THEN ExitCodes ELSE AwayExitCodes

\* The bound on what the processes emit in a run: max messages at the
\* client, queue of them on their way, and MaxAwayLog entries in the log of
\* the tracked session when the client is not sent the event.  An event of
\* the other session that the client is not sent changes nothing.
CanEmit(sid, max, queue) ==
    IF Forwarded(sid)
    THEN ClientLoad < max /\ Len(inbox) < queue
    ELSE sid = ThisSession /\ ~serverDeleted /\ Len(serverLog) < MaxAwayLog

\* The client alone: one subscription of one mounted hook to a session of
\* the store, and the server's side of it: the process writes and exits, the
\* server answers the subscribe with the log and forwards what comes after.
NextClient ==
    \/ \E sid \in Emitters : \E data \in WriteInputs(sid) :
          CanEmit(sid, MaxClientEvents, MaxInFlight) /\ ServerWrote(sid, data)
    \/ \E sid \in Emitters : \E exitCode \in ExitInputs(sid) :
          CanEmit(sid, MaxClientEvents, MaxInFlight) /\ ServerExited(sid, exitCode)
    \/ ClientOpen
    \/ \E logs \in ServerReplays : ServerSubscribed(logs)
    \/ \E logs \in ReplayInputs : ClientOnLogs(logs)
    \/ \E data \in DataInputs : ClientOnData(data)
    \/ \E exitCode \in ExitCodes : ClientOnExit(exitCode)
    \/ \E data \in InputData :
          ClientLoad < MaxClientEvents /\ ClientSendInput(data)
    \/ ClientLoad < MaxClientEvents /\ ClientResize
    \/ ClientClose

SpecClient == Init /\ [][NextClient]_vars

\* The client across subscriptions: sessionId changes between the session,
\* another one and none, and the UI clears the logs, sets the status and
\* removes the session.
NextClientSwitch ==
    \/ \E sid \in Emitters : \E data \in WriteInputs(sid) :
          CanEmit(sid, MaxSwitchEvents, MaxSwitchInFlight) /\ ServerWrote(sid, data)
    \/ \E sid \in Emitters : \E exitCode \in ExitInputs(sid) :
          CanEmit(sid, MaxSwitchEvents, MaxSwitchInFlight) /\ ServerExited(sid, exitCode)
    \/ ClientOpen
    \/ \E logs \in ServerReplays : ServerSubscribed(logs)
    \/ \E logs \in ReplayInputs : ClientOnLogs(logs)
    \/ \E data \in DataInputs : ClientOnData(data)
    \/ \E exitCode \in ExitCodes : ClientOnExit(exitCode)
    \/ \E data \in InputData :
          ClientLoad < MaxSwitchEvents /\ ClientSendInput(data)
    \/ ClientLoad < MaxSwitchEvents /\ ClientResize
    \/ ClientClose
    \/ \E next \in {NULL, ThisSession, OtherSession} :
          Subscribes < MaxSubscribes /\ ClientSetSessionId(next)
    \/ ClientClearLogs
    \/ \E status \in {"running", "stopped"} : ClientUpdateSession(status)
    \/ ServerDeleted
    \/ ClientRemoveSession

SpecClientSwitch == Init /\ [][NextClientSwitch]_vars

\* ----------------------------------------------------------------- claims
Status(id) == sess[id].status

Reported(p) == procs[p].state = "exited"

ProcsOf(id) == {p \in DOMAIN procs : procs[p].sid = id}

\* C1: in every reachable state and for every session, status = running iff
\* the session's process handle is non-null and that process has not yet
\* reported exit.
C1_RunningIffProcessLive ==
    \A id \in sessions :
        (Status(id) = "running") <=>
            (sess[id].pty # NULL /\ ~Reported(sess[id].pty))

\* The step is a start of session id whose spawn succeeded.
StartedNow(id) == StartSpawned(id)

\* The step is a stop of session id, a start of it whose spawn failed, or the
\* exit callback of one of its processes.
EndedNow(id) ==
    \/ StopSession(id)
    \/ StartSpawnFailed(id)
    \/ \E p \in ProcsOf(id), exitCode \in ExitCodes : OnExit(p, exitCode)

\* C2: a session is running exactly when a start succeeded and no exit, stop
\* or failed start has happened since: after every step, status = running
\* iff the step was a successful start of the session, or the session was
\* running before and the step was none of exit, stop, failed start.
C2_RunningSinceStart ==
    [][\A id \in sessions' :
          (sess'[id].status = "running") <=>
              \/ StartedNow(id)
              \/ id \in sessions /\ Status(id) = "running" /\ ~EndedNow(id)]_vars

\* A session started again after its earlier process exited, and running.
C2_Witness ==
    \E id \in sessions :
        /\ Status(id) = "running"
        /\ \E p \in ProcsOf(id) : p # sess[id].pty /\ Reported(p)

\* C3: stop is idempotent: on a session that is not running it returns false,
\* kills no process and emits no 'stopped' event; only a stop on a running
\* session returns true.
C3_StopIdempotent ==
    \A id \in sessions :
        /\ StopSessionResult(id) <=> Status(id) = "running"
        /\ Status(id) = "stopped" =>
               PtyTarget(id) = {} /\ StopSessionEmits(id) = {}

\* C4: sendInput and resize return true and forward to the process only when
\* the session is running; otherwise they return false and forward nothing.
C4_IoOnlyWhenRunning ==
    \A id \in sessions :
        /\ SendInputResult(id) <=> Status(id) = "running"
        /\ ResizeSessionResult(id) <=> Status(id) = "running"
        /\ Status(id) # "running" => PtyTarget(id) = {}

\* C5: for an id that is not in the registry, what start, stop, sendInput,
\* resize and getLogs return differs from what they return when they fail
\* (or find nothing) on a session that is in the registry.
C5_NotFoundDistinguishable ==
    \A a \in CallIds \ sessions, e \in sessions :
        /\ StartSessionResult(a, TRUE) # StartSessionResult(e, FALSE)
        /\ ~StopSessionResult(e) => StopSessionResult(a) # StopSessionResult(e)
        /\ ~SendInputResult(e) => SendInputResult(a) # SendInputResult(e)
        /\ ~ResizeSessionResult(e) =>
               ResizeSessionResult(a) # ResizeSessionResult(e)
        /\ sess[e].logs = <<>> => GetLogs(a, Undefined) # GetLogs(e, Undefined)

\* C7: when spawning fails the session gets status error, stays in the
\* registry and has no live process; a later start whose spawn succeeds
\* returns true and sets status running.
C7_SpawnFailureRecoverable ==
    [][\A id \in sessions :
          /\ StartSpawnFailed(id) =>
                /\ ~StartSessionResult(id, FALSE)
                /\ id \in sessions'
                /\ sess'[id].status = "error"
                /\ sess'[id].pty = NULL \/ procs'[sess'[id].pty].state = "exited"
          /\ StartSpawned(id) =>
                StartSessionResult(id, TRUE) /\ sess'[id].status = "running"]_vars

\* The events of session sid among the messages msgs.
IsEventOf(m, sid) == m.type # "logs" /\ m.sid = sid

EventsOf(msgs, sid) == SelectSeq(msgs, LAMBDA m : IsEventOf(m, sid))

After(s, n) == SubSeq(s, n + 1, Len(s))

\* The sessions of the registry whose subscriber set holds connection c.
SubscribedTo(c) ==
    {sid \in sessions \cap DOMAIN sessionConnections : c \in sessionConnections[sid]}

\* C6: the step that deletes a session leaves no subscriber set for it, and
\* from then on no data or exit event of it reaches a connection and no log
\* entry is appended for it.
C6_DeleteRemovesAll ==
    [][\A id \in Created :
          /\ (id \in sessions /\ id \notin sessions') =>
                id \notin DOMAIN sessionConnections'
          /\ id \notin sessions =>
                /\ sess'[id].logs = sess[id].logs
                /\ \A c \in Conns :
                      EventsOf(received'[c], id) = EventsOf(received[c], id)]_vars

\* C8: a connection is in the subscriber set of at most one session.
C8_OneSubscription ==
    \A c \in Conns : Cardinality(SubscribedTo(c)) <= 1

\* C9: a connection that has unsubscribed or has closed is in no session's
\* subscriber set.
C9_UnsubscribedReceivesNothing ==
    \A c \in Conns :
        (subscribedSessionId[c] = NULL \/ readyState[c] = "CLOSED") =>
            SubscribedTo(c) = {}

\* C10: an open subscriber has received, since it subscribed, exactly the
\* data and exit events published for its session since then, each once and
\* in the order they were published; so has every other subscriber.
C10_Broadcast ==
    \A c \in Conns :
        (readyState[c] = "OPEN" /\ subscribedSessionId[c] \in Created) =>
            LET sid == subscribedSessionId[c]
            IN EventsOf(After(received[c], subMark[c].recv), sid) =
                   After(published[sid], subMark[c].pub)

\* Two open subscribers of one session, each sent a data and an exit event
\* after subscribing.
C10_Witness ==
    \E sid \in Created : \E c1, c2 \in Conns :
        /\ c1 # c2
        /\ \A c \in {c1, c2} :
              /\ readyState[c] = "OPEN"
              /\ subscribedSessionId[c] = sid
              /\ Len(published[sid]) >= subMark[c].pub + 2
              /\ Len(EventsOf(After(received[c], subMark[c].recv), sid)) >= 2

Min(a, b) == IF a <= b THEN a ELSE b

\* The subscriptions in force: an open connection and the session of the
\* registry that its last 'subscribe' named.
Subscriptions ==
    {<<c, sid>> \in Conns \X sessions :
        readyState[c] = "OPEN" /\ subscribedSessionId[c] = sid}

\* The log of session sid as it was when connection c subscribed: every
\* event published since then appended one entry.
LogsAtSubscribe(c, sid) ==
    SubSeq(sess[sid].logs, 1,
           Len(sess[sid].logs) - (Len(published[sid]) - subMark[c].pub))

\* C11: the message a subscriber was sent on subscribing is one logs message,
\* it precedes every event of the subscription and no second logs message
\* follows it, and its entries are the last LogReplayLimit entries the log
\* had at that moment (all of them if there were fewer), in append order.
C11_ReplayOnSubscribe ==
    \A <<c, sid>> \in Subscriptions :
        LET mark  == subMark[c].recv
            atSub == LogsAtSubscribe(c, sid)
            n     == Min(Len(atSub), LogReplayLimit)
        IN /\ mark \in 1..Len(received[c])
           /\ received[c][mark].type = "logs"
           /\ Len(received[c][mark].logs) = n
           /\ \A i \in 1..n :
                 received[c][mark].logs[i] = atSub[Len(atSub) - n + i]
           /\ \A j \in (mark + 1)..Len(received[c]) :
                 received[c][j].type # "logs"
           /\ Len(received[c]) - mark = Len(published[sid]) - subMark[c].pub

\* A subscriber that subscribed when the log held more than LogReplayLimit
\* entries, and was sent an event afterwards.
C11_Witness ==
    \E <<c, sid>> \in Subscriptions :
        /\ Len(LogsAtSubscribe(c, sid)) > LogReplayLimit
        /\ Len(received[c][subMark[c].recv].logs) = LogReplayLimit
        /\ Len(received[c]) > subMark[c].recv

\* The events of its session that a subscriber was sent since subscribing.
SubscriptionEvents(c, sid) == EventsOf(After(received[c], subMark[c].recv), sid)

\* C12: within one subscription the exit event is sent at most once and is
\* the last event: nothing of the session follows it until a new subscribe.
C12_ExitTerminal ==
    \A <<c, sid>> \in Subscriptions :
        \A i \in 1..Len(SubscriptionEvents(c, sid)) :
            SubscriptionEvents(c, sid)[i].type = "exit" =>
                i = Len(SubscriptionEvents(c, sid))

\* ------------------------------------------------- claims about the client
RECURSIVE JoinLines(_)
JoinLines(lines) ==
    IF lines = <<>> THEN <<>>
    ELSE IF Len(lines) = 1 THEN lines[1]
    ELSE lines[1] \o <<NL>> \o JoinLines(Tail(lines))

MessageIds(messages) == {messages[i].id : i \in 1..Len(messages)}

Range(s) == {s[i] : i \in 1..Len(s)}

\* The lines of the output chunks, and those of them that are raw.
InputLines == UNION {Range(Split(StripAnsi(data))) : data \in DataInputs}

RawLines == {line \in InputLines : LineType(line) = "raw"}

\* The turns of the line loop over one chunk from state st: the state before
\* the line, the line, the state after it.
LineSteps(st, data) ==
    LET lines == Split(StripAnsi(data))
    IN {<<ProcessLines(st, SubSeq(lines, 1, k - 1)), lines[k],
          ProcessLines(st, SubSeq(lines, 1, k))>> : k \in 1..Len(lines)}

LogLineSteps(st, logs) ==
    UNION {LineSteps(ProcessLogs(st, SubSeq(logs, 1, i - 1)), logs[i].content) :
              i \in 1..Len(logs)}

\* The turns of the line loop that the present step runs: those of
\* processData in ws.onmessage, which no other step calls.
LinesNow ==
    IF handled' = handled THEN {}
    ELSE UNION ({LineSteps(Client, data) :
                    data \in {d \in DataInputs : ClientOnData(d)}}
                \cup {LogLineSteps(Client, logs) :
                         logs \in {l \in ReplayInputs : ClientOnLogs(l)}})

\* C13: the raw lines handled since the last user line, tool line, input or
\* exit are the content of one assistant message, joined by newlines: the
\* message the parser holds open, with isStreaming = true; system lines in
\* between change nothing of this.
C13_RawRunIsOneMessage ==
    run # <<>> =>
        /\ OpenAccumulation(parserRef)
        /\ \E i \in 1..Len(sessionMessages) :
              /\ sessionMessages[i].id = parserRef.currentMessageId
              /\ sessionMessages[i].role = "assistant"
              /\ sessionMessages[i].content = JoinLines(run)
              /\ sessionMessages[i].isStreaming

\* C14: a tool line leaves the content of every earlier message as it was,
\* sets isStreaming of the open assistant message to false, appends one tool
\* message with toolName and toolInput that is not streaming, and leaves the
\* parser with no role and no current message id, so that a raw line handled
\* next opens a new assistant message with a new id.
C14_ToolLineFlushes ==
    [][\A <<pre, line, post>> \in LinesNow :
          LineType(line) = "tool" =>
              LET n == Len(pre.messages)
              IN /\ Len(post.messages) = n + 1
                 /\ \A i \in 1..n :
                       /\ post.messages[i].id = pre.messages[i].id
                       /\ post.messages[i].content = pre.messages[i].content
                       /\ post.messages[i].isStreaming =
                             (/\ pre.messages[i].isStreaming
                              /\ ~(/\ OpenAccumulation(pre.parser)
                                   /\ pre.messages[i].id =
                                          pre.parser.currentMessageId))
                 /\ post.messages[n + 1].role = "tool"
                 /\ post.messages[n + 1].content = Trim(line)
                 /\ ~post.messages[n + 1].isStreaming
                 /\ {"toolName", "toolInput"} \subseteq DOMAIN post.messages[n + 1]
                 /\ post.messages[n + 1].toolName = ToolName(Head(Trim(line)))
                 /\ post.parser.currentRole = NoRole
                 /\ post.parser.currentMessageId = NULL
                 /\ \A raw \in RawLines :
                       LET next == ProcessLine(post, raw)
                       IN /\ Len(next.messages) = n + 2
                          /\ next.messages[n + 2].role = "assistant"
                          /\ next.messages[n + 2].id \notin MessageIds(post.messages)
                          /\ next.parser.currentMessageId = next.messages[n + 2].id]_vars

\* An assistant message closed by a tool line, the tool message after it,
\* and a new assistant message open after that.
C14_Witness ==
    \E i \in 1..(Len(sessionMessages) - 2) :
        /\ sessionMessages[i].role = "assistant"
        /\ ~sessionMessages[i].isStreaming
        /\ sessionMessages[i + 1].role = "tool"
        /\ sessionMessages[i + 2].role = "assistant"
        /\ sessionMessages[i + 2].isStreaming
        /\ parserRef.currentMessageId = sessionMessages[i + 2].id

\* C15: a step that sends input while an assistant message is open closes
\* that message (isStreaming = false), resets the parser and dispatches the
\* input, whatever the input is.
C15_InputFlushes ==
    [][\A data \in InputData :
          (wsRef = "OPEN" /\ OpenAccumulation(parserRef) /\ ClientSendInput(data)) =>
              /\ sent' = Append(sent, [type |-> "input", data |-> data])
              /\ parserRef' = ResetParser
              /\ \A i \in 1..Len(sessionMessages) :
                    sessionMessages[i].id = parserRef.currentMessageId =>
                        ~sessionMessages'[i].isStreaming]_vars

\* The message at place i was closed by an exit: an assistant message that is
\* not streaming, with the exit's system message right after it.
ClosedByExit(i) ==
    /\ i + 1 \in 1..Len(sessionMessages)
    /\ sessionMessages[i].role = "assistant"
    /\ ~sessionMessages[i].isStreaming
    /\ sessionMessages[i + 1].role = "system"
    /\ \E exitCode \in ExitCodes :
          sessionMessages[i + 1].content = ExitText(exitCode)

\* C16: the step that handles an exit sets isStreaming of the open assistant
\* message to false and appends a system message with the exit code; and no
\* chunk handled later changes a message an exit has closed.
C16_ExitCloses ==
    [][/\ \A exitCode \in ExitCodes :
             ClientOnExit(exitCode) =>
                 /\ Len(sessionMessages') = Len(sessionMessages) + 1
                 /\ sessionMessages'[Len(sessionMessages')].role = "system"
                 /\ sessionMessages'[Len(sessionMessages')].content =
                        ExitText(exitCode)
                 /\ \A i \in 1..Len(sessionMessages) :
                       (/\ OpenAccumulation(parserRef)
                        /\ sessionMessages[i].id = parserRef.currentMessageId) =>
                           ~sessionMessages'[i].isStreaming
       /\ \A data \in DataInputs :
             ClientOnData(data) =>
                 \A i \in 1..Len(sessionMessages) :
                     ClosedByExit(i) => sessionMessages'[i] = sessionMessages[i]]_vars

\* C17: after an empty replay, the chunks "Hello", " world\n" and
\* "Bash: ls -la" and nothing else, the transcript is the assistant message
\* "Hello world", not streaming, and the tool message "Bash: ls -la" of tool
\* Bash.
C17_SplitLineCoalesced ==
    (/\ handled = 4
     /\ storeStatus = "running"
     /\ sessionLogs = <<StdoutEntry(<<"Hello">>), StdoutEntry(<<" world", NL>>),
                        StdoutEntry(<<"Bash: ls -la">>)>>
     /\ Len(sent) = 1) =>
        /\ Len(sessionMessages) = 2
        /\ sessionMessages[1].role = "assistant"
        /\ sessionMessages[1].content = <<"Hello", " world">>
        /\ ~sessionMessages[1].isStreaming
        /\ sessionMessages[2].role = "tool"
        /\ sessionMessages[2].toolName = "Bash"
        /\ sessionMessages[2].content = <<"Bash: ls -la">>

\* C18: a raw line handled while no accumulation is open appends one
\* assistant message with a fresh id, isStreaming = true and the line as its
\* content, and makes it the parser's open message; a raw line handled while
\* one is open (the following raw lines of the chunk) appends no message.
C18_RawLineOpensOnce ==
    [][\A <<pre, line, post>> \in LinesNow :
          LineType(line) = "raw" =>
              IF ~OpenAccumulation(pre.parser)
              THEN LET id == post.parser.currentMessageId
                   IN /\ id \notin MessageIds(pre.messages) \cup {NULL}
                      /\ post.messages =
                            Append(pre.messages,
                                   [id |-> id, role |-> "assistant",
                                    content |-> line, isStreaming |-> TRUE])
                      /\ post.parser.currentRole = "assistant"
                      /\ post.parser.buffer = line
              ELSE /\ Len(post.messages) = Len(pre.messages)
                   /\ post.parser.currentMessageId = pre.parser.currentMessageId]_vars

\* One chunk of two raw lines was handled with nothing open: one assistant
\* message holds both lines.
C18_Witness ==
    /\ sessionLogs = <<StdoutEntry(<<"one", NL, "two", NL>>)>>
    /\ Len(sessionMessages) = 1
    /\ sessionMessages[1].role = "assistant"
    /\ sessionMessages[1].content = <<"one", NL, "two">>
    /\ sessionMessages[1].isStreaming
    /\ parserRef.currentMessageId = sessionMessages[1].id

UserMessages == {i \in 1..Len(sessionMessages) : sessionMessages[i].role = "user"}

\* The session of the socket that message j of sent went out on: the one
\* named by the last 'subscribe' before it (ws.onopen sends it first).
SentFor(j) ==
    LET subs == {i \in 1..j : sent[i].type = "subscribe"}
    IN IF subs = {} THEN NULL
       ELSE sent[CHOOSE i \in subs : \A k \in subs : k <= i].sessionId

\* The inputs sent for the tracked session that are neither blank nor Ctrl-C.
ShownInputs ==
    {j \in 1..Len(sent) : /\ sent[j].type = "input"
                          /\ ShownAsUser(sent[j].data)
                          /\ SentFor(j) = ThisSession}

\* What a user line does to the parser and the store: it appends no message
\* and takes no id; if an accumulation is open it sets that message's
\* isStreaming to false and resets the parser, else it changes nothing.
UserLinesOnlyClose ==
    \A <<pre, line, post>> \in LinesNow :
        LineType(line) = "user" =>
            IF OpenAccumulation(pre.parser)
            THEN /\ post.parser = ResetParser
                 /\ post.counter = pre.counter
                 /\ post.messages =
                       [i \in 1..Len(pre.messages) |->
                           IF pre.messages[i].id = pre.parser.currentMessageId
                           THEN [pre.messages[i] EXCEPT !.isStreaming = FALSE]
                           ELSE pre.messages[i]]
            ELSE post = pre

\* C19 as stated: a user line only closes the open accumulation, and after
\* every step the transcript of the session has as many user messages as
\* inputs were sent for it that are neither blank nor Ctrl-C.
C19_UserLineOnlyCloses ==
    [][/\ UserLinesOnlyClose
       /\ Cardinality(UserMessages') = Cardinality(ShownInputs')]_vars

\* C19: a user line only closes the open accumulation, and the user messages
\* of the transcript are those of sendInput: removeSession leaves none, and
\* any other step adds one exactly when it sends an input for the session
\* that is neither blank nor Ctrl-C.  The transcript has as many user
\* messages as such inputs were sent since the store last removed the
\* session.
C19_UserLineOnlyClosesSinceRemoval ==
    [][/\ UserLinesOnlyClose
       /\ \/ UNCHANGED <<sessionMessages, sent>>
          \/ IF ClientRemoveSession
             THEN UserMessages' = {}
             ELSE Cardinality(UserMessages') - Cardinality(UserMessages) =
                      Cardinality(ShownInputs') - Cardinality(ShownInputs)]_vars

\* An input was sent and shown, and the replay held an assistant line and
\* the echoed prompt that closed it: one user message, one assistant message
\* that is not streaming, and nothing open.
C19_Witness ==
    /\ sessionLogs = <<StdoutEntry(<<"Hello">>), StdoutEntry(<<"> hi", NL>>)>>
    /\ parserRef = ResetParser
    /\ Cardinality(UserMessages) = 1
    /\ Cardinality(ShownInputs) = 1
    /\ Len(sessionMessages) = 2
    /\ sessionMessages[1].role = "assistant"
    /\ ~sessionMessages[1].isStreaming

\* C20: a system line appends one system message that is not streaming, with
\* a fresh id, and changes neither the parser state nor any earlier message.
C20_SystemLineStandsAlone ==
    [][\A <<pre, line, post>> \in LinesNow :
          LineType(line) = "system" =>
              /\ post.parser = pre.parser
              /\ post.messages =
                    Append(pre.messages,
                           [id |-> post.counter, role |-> "system",
                            content |-> Trim(line), isStreaming |-> FALSE])
              /\ post.counter \notin MessageIds(pre.messages)]_vars

\* A system message was appended while an assistant message is open, and the
\* assistant message is still open and streaming.
C20_Witness ==
    \E i \in 1..(Len(sessionMessages) - 1) :
        /\ sessionMessages[i].role = "assistant"
        /\ sessionMessages[i].isStreaming
        /\ OpenAccumulation(parserRef)
        /\ parserRef.currentMessageId = sessionMessages[i].id
        /\ sessionMessages[i + 1].role = "system"
        /\ sessionMessages[i + 1].content = <<"Error: boom">>

\* ---------------------------------------- more claims about the server
\* C23: in a step that forwards a data or exit event of a session, every
\* open connection of the session's subscriber set is sent the event, and
\* every connection of the set that is not open is removed from the set.
C23_SendFailureContained ==
    [][\A p \in DOMAIN procs :
          (OnData(p) \/ \E exitCode \in ExitCodes : OnExit(p, exitCode)) =>
              (procs[p].sid \in DOMAIN sessionConnections =>
                  \A c \in sessionConnections[procs[p].sid] :
                      IF readyState[c] = "OPEN"
                      THEN Len(received'[c]) = Len(received[c]) + 1
                      ELSE c \notin sessionConnections'[procs[p].sid])]_vars

\* The limits a caller of getLogs passes.
Limits == 0..(MaxLoad + 1)

\* C24: for every session of the registry and every limit >= 0, getLogs
\* returns the last min(limit, length) entries of the log in append order
\* (none for limit 0), and the whole log when the limit is left out.
C24_GetLogsLimit ==
    \A id \in sessions :
        /\ GetLogs(id, Undefined) = sess[id].logs
        /\ \A limit \in Limits :
              LET log == sess[id].logs
                  n   == Min(limit, Len(log))
              IN /\ Len(GetLogs(id, limit)) = n
                 /\ \A i \in 1..n :
                       GetLogs(id, limit)[i] = log[Len(log) - n + i]

\* The step is an operation on session a or an event of one of its processes.
StepOf(a) ==
    \/ StartSpawned(a)
    \/ StartSpawnFailed(a)
    \/ StopSession(a)
    \/ DeleteSession(a)
    \/ \E p \in ProcsOf(a) :
          OnData(p) \/ \E exitCode \in ExitCodes : OnExit(p, exitCode)

SubscribersOf(sid) ==
    IF sid \in DOMAIN sessionConnections THEN sessionConnections[sid] ELSE {}

\* What the registry and the server hold of session b is as it was.
Untouched(b) ==
    /\ sess'[b] = sess[b]
    /\ (b \in sessions') = (b \in sessions)
    /\ \A p \in ProcsOf(b) : procs'[p] = procs[p]
    /\ SubscribersOf(b)' = SubscribersOf(b)

\* C25: a step of session a leaves the session object, the processes and the
\* subscriber set of every other session b as they were, and sends nothing
\* to a connection that is in b's subscriber set and not in a's.  (Stated
\* from b's side: when something of b changed, or a subscriber of b was sent
\* something, the step was of no other session a.)
C25_SessionsIsolated ==
    [][\A b \in Created :
          /\ ~Untouched(b) => \A a \in Created \ {b} : ~StepOf(a)
          /\ \A c \in SubscribersOf(b) :
                received'[c] # received[c] =>
                    \A a \in Created \ {b} :
                        c \notin SubscribersOf(a) => ~StepOf(a)]_vars

\* Session a's process has exited while session b runs, and an open
\* subscriber of b alone was sent nothing of a.
C25_Witness ==
    \E a, b \in sessions : \E c \in Conns :
        /\ a # b
        /\ Len(published[a]) >= 1
        /\ Status(a) = "stopped"
        /\ Status(b) = "running"
        /\ readyState[c] = "OPEN"
        /\ c \in SubscribersOf(b) \ SubscribersOf(a)
        /\ EventsOf(received[c], a) = <<>>

\* A stop that returns true is followed by one exit event: the process it
\* kills has not reported its exit yet.
StopHasExitDue(id) == StopSessionResult(id) => ~Reported(sess[id].pty)

\* C26: the exit callback of a process sets the session's status to stopped,
\* appends one system entry with the exit code to its log and publishes one
\* exit event; and after every step, a stop that would return true has an
\* exit event still to follow.
C26_OneExitPerTermination ==
    [][/\ \A p \in DOMAIN procs : \A exitCode \in ExitCodes :
             OnExit(p, exitCode) =>
                 LET sid == procs[p].sid
                 IN /\ sess'[sid].status = "stopped"
                    /\ sess'[sid].logs = Append(sess[sid].logs, SystemEntry(exitCode))
                    /\ published'[sid] =
                          Append(published[sid], ExitMessage(sid, exitCode))
                    /\ Reported(p)'
       /\ \A id \in sessions' : StopHasExitDue(id)']_vars

LiveProcsOf(id) == {p \in ProcsOf(id) : procs[p].state = "live"}

\* C27: a session has at most one live process, and every live process is
\* the process handle of its session.
C27_OneLiveProcess ==
    \A id \in Created :
        /\ Cardinality(LiveProcsOf(id)) <= 1
        /\ \A p \in LiveProcsOf(id) : sess[id].pty = p

\* C28: the exit callback of a process that is no longer its session's
\* handle, arriving while the session runs with a newer live process, leaves
\* the status running and sends no exit event to the session's subscribers.
C28_LateExitIgnored ==
    [][\A p \in DOMAIN procs : \A exitCode \in ExitCodes :
          (/\ OnExit(p, exitCode)
           /\ sess[procs[p].sid].pty # p
           /\ procs[p].state = "killed"
           /\ procs[sess[procs[p].sid].pty].state = "live"
           /\ Status(procs[p].sid) = "running") =>
              /\ sess'[procs[p].sid].status = "running"
              /\ \A c \in SubscribersOf(procs[p].sid) : received'[c] = received[c]]_vars

\* The output chunks of a session: the content of the stdout entries of its
\* log.
ChunksOf(sid) ==
    {sess[sid].logs[i].content :
        i \in {j \in 1..Len(sess[sid].logs) : sess[sid].logs[j].type = "stdout"}}

\* How often chunk x is in the replays sent to connection c, and how often in
\* its data events.
Replayed(c, x) ==
    {<<i, j>> \in (1..Len(received[c])) \X (1..MaxLoad) :
        /\ received[c][i].type = "logs"
        /\ j <= Len(received[c][i].logs)
        /\ received[c][i].logs[j].content = x}

Streamed(c, x) ==
    {i \in 1..Len(received[c]) :
        received[c][i].type = "data" /\ received[c][i].data = x}

SubscribedOnce(c) ==
    Cardinality({i \in 1..Len(received[c]) : received[c][i].type = "logs"}) = 1

\* C29: a connection that has subscribed once, to a session of the registry,
\* has every output chunk of the session exactly once, either in the replay
\* or as a data event.
C29_EachChunkOnce ==
    \A <<c, sid>> \in Subscriptions :
        SubscribedOnce(c) =>
            \A x \in ChunksOf(sid) :
                Cardinality(Replayed(c, x)) + Cardinality(Streamed(c, x)) = 1

\* A subscriber that has one chunk from the replay and one as a data event.
C29_Witness ==
    \E <<c, sid>> \in Subscriptions :
        /\ SubscribedOnce(c)
        /\ \E x, y \in ChunksOf(sid) :
              /\ x # y
              /\ Cardinality(Replayed(c, x)) = 1
              /\ Cardinality(Streamed(c, y)) = 1

\* C21: a message is streaming exactly when it is the assistant message the
\* parser holds open (currentRole is assistant and currentMessageId is its
\* id); so at most one message of the session streams at a time, and a
\* message that a tool line, a user line, an input or an exit has closed is
\* not open in the parser any more.
C21_StreamingIsOpenMessage ==
    \A i \in 1..Len(sessionMessages) :
        sessionMessages[i].isStreaming <=>
            /\ sessionMessages[i].role = "assistant"
            /\ parserRef.currentRole = "assistant"
            /\ parserRef.currentMessageId = sessionMessages[i].id

\* The lines that the noise filters let through: those of processData and
\* the length test and skipPatterns at the head of parseClaudeOutput.
Survives(line) ==
    LET trimmed == Trim(line)
    IN /\ trimmed # <<>>
       /\ ~UiPattern(trimmed)
       /\ ~ShortNoAlpha(trimmed)
       /\ ~(Len(trimmed) = 1 /\ trimmed[1] \in SingleCharTokens)
       /\ ~Includes(trimmed, SkipTokens)

\* toolPatterns: all three are anchored at the start of the line.
MatchesToolPattern(line) == StartsWith(Trim(line), ToolTokens)

\* C22: a line that matches a tool pattern is classified tool and nothing
\* else, whatever else it matches: the line loop appends one tool message
\* with the whole line as its content.
C22_ToolPatternWins ==
    [][\A step \in LinesNow :
          MatchesToolPattern(step[2]) =>
              /\ LineType(step[2]) = "tool"
              /\ Len(step[3].messages) = Len(step[1].messages) + 1
              /\ step[3].messages[Len(step[3].messages)].role = "tool"
              /\ step[3].messages[Len(step[3].messages)].content = Trim(step[2])]_vars

\* The lines of the session's output, by position: entry i of the log, line
\* k of its content; and the text of the line at a position.
EntryLines(entry) == Split(StripAnsi(entry.content))

LinePositions(logs) ==
    UNION {{<<i, k>> : k \in 1..Len(EntryLines(logs[i]))} : i \in 1..Len(logs)}

LineAt(logs, pos) == Trim(EntryLines(logs[pos[1]])[pos[2]])

\* A message represents a line when the line is one of the lines of its
\* content.
Represents(message, line) ==
    \E k \in 1..Len(Split(message.content)) :
        Trim(Split(message.content)[k]) = line

\* C30: when the client has handled the replay of a subscription, also of a
\* second one, no line of the session's output is represented by more
\* messages of the session than the number of times the output holds it.
C30_ReplayDoesNotDuplicate ==
    (Here /\ Receiving) =>
        \A pos \in LinePositions(serverLog) :
            LET line == LineAt(serverLog, pos)
            IN Survives(line) =>
                   Cardinality({i \in 1..Len(sessionMessages) :
                                   Represents(sessionMessages[i], line)})
                       <= Cardinality({q \in LinePositions(serverLog) :
                                          LineAt(serverLog, q) = line})

====
